---- MODULE Spec2Model ----
(***************************************************************************)
(* MOVS core: the snapshot metadata store (src/src/metadata), snapshot ids *)
(* (src/src/types.rs) and the streaming hasher (src/src/hash).             *)
(*                                                                         *)
(* Strings are sequences of byte codes (ASCII), so that the string         *)
(* functions of the code (format!, Path::extension, Path::file_stem,       *)
(* str::cmp) are computed and not assumed.                                 *)
(***************************************************************************)
EXTENDS Integers, Sequences, FiniteSets, TLC

VARIABLES
    dirs,     \* which of .movs, .movs/snapshots, .movs/objects, .movs/config.json exist
    files,    \* the regular files of .movs/snapshots: file name -> content
    pc,       \* the mutating caller: "idle", "writing" (inside fs::write), "crashed"
    cur,      \* the save in progress: the metadata, its JSON, the record it found (history)
    last,     \* the most recent call (or step of a call) and what it returned
    saved,    \* history: id -> the metadata of its last completed save, while no later save or delete
    hist,     \* history: id -> "never" | "live" | "deleted"
    clock,    \* the wall clock Utc::now() reads
    gen,      \* the ids SnapshotId::generate() returned, in call order
    disk,     \* the files handed to the hasher: path -> content or Missing
    hin,      \* the paths given to the hasher, one task each
    task,     \* per task: position in hash_file, hasher state, result
    results,  \* the Vec hash_files_parallel returns, None until collected
    ident     \* what files_identical returned, NoVerdict until it returns

vars == <<dirs, files, pc, cur, last, saved, hist, clock, gen, disk, hin, task,
          results, ident>>

storeVars == <<dirs, files, pc, cur, last, saved, hist>>
genVars == <<gen>>
hashVars == <<disk, hin, task, results, ident>>

----------------------------------------------------------------------------
(* Option<T> *)

None == <<>>
Some(x) == <<x>>

(* ASCII *)
Dot == 46
Underscore == 95
Digit0 == 48

----------------------------------------------------------------------------
(* str::cmp: byte-wise lexicographic order *)

RECURSIVE StrLess(_, _)
StrLess(a, b) ==
    IF b = <<>> THEN FALSE
    ELSE IF a = <<>> THEN TRUE
    ELSE IF a[1] < b[1] THEN TRUE
    ELSE IF a[1] > b[1] THEN FALSE
    ELSE StrLess(Tail(a), Tail(b))

----------------------------------------------------------------------------
(* Paths below .movs (metadata/mod.rs).  A snapshot id without a path      *)
(* separator names one file directly inside .movs/snapshots, so a path of  *)
(* that directory is modelled by its file name.                            *)

MOVS_DIR == "movs"
SNAPSHOTS_DIR == "snapshots"
OBJECTS_DIR == "objects"
CONFIG_FILE == "config"

JsonExt == <<106, 115, 111, 110>>

\* The ids callers pass: "", "ab", "b" (SnapshotId::new takes any string).
Ids == {<<>>, <<97, 98>>, <<98>>}

\* (variant: the file name does not depend on the id)
get_snapshot_path_fixed(snapshot_id) == <<115>> \o <<Dot>> \o JsonExt

get_snapshot_path(snapshot_id) == snapshot_id \o <<Dot>> \o JsonExt

snapshot_exists(snapshot_id) == get_snapshot_path(snapshot_id) \in DOMAIN files

repository_exists == MOVS_DIR \in dirs

\* std::path: the index of the last '.' of a file name, 0 when there is none.
LastDot(name) ==
    LET dots == {i \in 1..Len(name) : name[i] = Dot}
    IN  IF dots = {} THEN 0 ELSE CHOOSE i \in dots : \A j \in dots : j <= i

\* Path::extension: None without a '.', and None when the only '.' starts the name.
extension(name) ==
    IF LastDot(name) <= 1 THEN None
    ELSE Some(SubSeq(name, LastDot(name) + 1, Len(name)))

\* Path::file_stem: the whole name in those two cases, else what precedes the last '.'.
file_stem(name) ==
    IF LastDot(name) <= 1 THEN name
    ELSE SubSeq(name, 1, LastDot(name) - 1)

----------------------------------------------------------------------------
(* types.rs: FileEntry, SnapshotMetadata *)

TestFiles ==
    << [path |-> "test.txt", hash |-> <<1, 2, 3, 4>>, size |-> 100, modified |-> 1],
       [path |-> "audio.wav", hash |-> <<5, 6, 7, 8>>, size |-> 50000, modified |-> 2] >>

\* A PathBuf that is not valid UTF-8: serde refuses to serialize it.
NonUtf8Path == "\\xFF"

BadFiles ==
    << [path |-> NonUtf8Path, hash |-> <<9>>, size |-> 1, modified |-> 1] >>

SnapshotMetadata_new(id, message, author, parent, files_) ==
    [id |-> id, timestamp |-> clock, message |-> message, author |-> author,
     parent |-> parent, files |-> files_]

\* The metadata the callers build: for every id a root snapshot without
\* files and a snapshot of two files whose parent is "b"; and one whose
\* file list serde cannot serialize.
Inputs ==
    {SnapshotMetadata_new(id, "first", None, None, <<>>) : id \in Ids}
    \cup {SnapshotMetadata_new(id, "Test snapshot", Some("TestUser"),
                               Some(<<98>>), TestFiles) : id \in Ids}
    \cup {SnapshotMetadata_new(<<98>>, "unsaveable", None, None, BadFiles)}

----------------------------------------------------------------------------
(* serde_json: a JSON text is a sequence of tokens <<key, value>>; what a  *)
(* write has put on disk so far is a prefix of it.                         *)

Tok(k, v) == <<k, v>>

Serializable(m) == \A i \in 1..Len(m.files) : m.files[i].path # NonUtf8Path

\* (variant: the parent field is skipped when serializing)
to_string_skip_parent(m) ==
    << Tok("{", <<>>),
       Tok("id", m.id),
       Tok("timestamp", m.timestamp),
       Tok("message", m.message),
       Tok("author", m.author),
       Tok("parent", None),
       Tok("files", <<>>) >>
    \o [i \in 1..Len(m.files) |->
            Tok("entry", <<m.files[i].path, m.files[i].hash,
                           m.files[i].size, m.files[i].modified>>)]
    \o << Tok("]", <<>>), Tok("}", <<>>) >>

to_string_pretty(m) ==
    << Tok("{", <<>>),
       Tok("id", m.id),
       Tok("timestamp", m.timestamp),
       Tok("message", m.message),
       Tok("author", m.author),
       Tok("parent", m.parent),
       Tok("files", <<>>) >>
    \o [i \in 1..Len(m.files) |->
            Tok("entry", <<m.files[i].path, m.files[i].hash,
                           m.files[i].size, m.files[i].modified>>)]
    \o << Tok("]", <<>>), Tok("}", <<>>) >>

HeaderKeys == <<"{", "id", "timestamp", "message", "author", "parent", "files">>

WellFormed(json) ==
    /\ Len(json) >= Len(HeaderKeys) + 2
    /\ \A i \in 1..Len(HeaderKeys) : json[i][1] = HeaderKeys[i]
    /\ \A i \in (Len(HeaderKeys) + 1)..(Len(json) - 2) : json[i][1] = "entry"
    /\ json[Len(json) - 1][1] = "]"
    /\ json[Len(json)][1] = "}"

\* serde_json::from_str::<SnapshotMetadata>
from_str(json) ==
    IF WellFormed(json)
    THEN [ok |-> TRUE,
          value |-> [id |-> json[2][2], timestamp |-> json[3][2],
                     message |-> json[4][2], author |-> json[5][2],
                     parent |-> json[6][2],
                     files |-> [i \in 1..(Len(json) - Len(HeaderKeys) - 2) |->
                                  LET e == json[Len(HeaderKeys) + i][2]
                                  IN  [path |-> e[1], hash |-> e[2],
                                       size |-> e[3], modified |-> e[4]]]]]
    ELSE [ok |-> FALSE, value |-> None]

----------------------------------------------------------------------------
(* What a call returned *)

\* Tokens one write(2) transfers.
BlockTokens == 4

NoVal == <<>>
Ret(op, id, res, val) == [op |-> op, id |-> id, res |-> res, val |-> val]

Remove(f, k) == [x \in DOMAIN f \ {k} |-> f[x]]
Put(f, k, v) == [x \in DOMAIN f \cup {k} |-> IF x = k THEN v ELSE f[x]]

----------------------------------------------------------------------------
(* metadata/mod.rs: init_repository, list_snapshots *)

\* (variant: the objects directory is never created)
InitStepsNoObjects == <<MOVS_DIR, SNAPSHOTS_DIR, CONFIG_FILE>>

\* The four filesystem calls of init_repository, in the order it makes them.
InitSteps == <<MOVS_DIR, SNAPSHOTS_DIR, OBJECTS_DIR, CONFIG_FILE>>

\* `done` is the number of those calls that succeed before one returns an
\* I/O error (all four: Ok).
init_repository ==
    /\ pc = "idle"
    /\ IF repository_exists
       THEN /\ last' = Ret("init", <<>>, "RepositoryAlreadyExists", NoVal)
            /\ UNCHANGED dirs
       ELSE \E done \in 0..Len(InitSteps) :
            /\ dirs' = dirs \cup {InitSteps[i] : i \in 1..done}
            /\ last' = Ret("init", <<>>,
                           IF done = Len(InitSteps) THEN "Ok" ELSE "Io", NoVal)
    /\ UNCHANGED <<files, pc, cur, saved, hist, clock, genVars, hashVars>>

\* fs::read_dir yields the entries in an order the filesystem chooses.
read_dir ==
    LET names == DOMAIN files
        n == Cardinality(names)
    IN  {order \in [1..n -> names] : \A x \in names : \E i \in 1..n : order[i] = x}

RECURSIVE collect(_)
\* the loop of list_snapshots: keep the stems of the *.json files
collect(entries) ==
    IF entries = <<>> THEN <<>>
    ELSE LET path == Head(entries)
         IN  (IF extension(path) = Some(JsonExt) THEN <<file_stem(path)>> ELSE <<>>)
             \o collect(Tail(entries))

RECURSIVE insert(_, _)
insert(sorted, x) ==
    IF sorted = <<>> THEN <<x>>
    ELSE IF StrLess(x, Head(sorted)) THEN <<x>> \o sorted
    ELSE <<Head(sorted)>> \o insert(Tail(sorted), x)

RECURSIVE sort_by(_)
\* snapshot_ids.sort_by(|a, b| a.as_str().cmp(b.as_str())): a stable sort
sort_by(ids) ==
    IF ids = <<>> THEN <<>>
    ELSE insert(sort_by(SubSeq(ids, 1, Len(ids) - 1)), ids[Len(ids)])

list_snapshots ==
    /\ IF SNAPSHOTS_DIR \notin dirs
       THEN last' = Ret("list", <<>>, "RepositoryNotFound", NoVal)
       ELSE \E order \in read_dir :
                last' = Ret("list", <<>>, "Ok", sort_by(collect(order)))
    /\ UNCHANGED <<dirs, files, pc, cur, saved, hist, clock, genVars, hashVars>>

----------------------------------------------------------------------------
(* metadata/persistence.rs: save_snapshot, load_snapshot, delete_snapshot *)

\* save_snapshot up to and including the File::create of fs::write, which
\* creates the file or truncates the one that is there.
save_snapshot(metadata) ==
    /\ pc = "idle"
    /\ IF ~Serializable(metadata)
       THEN /\ last' = Ret("save", metadata.id, "SerializationError", NoVal)
            /\ UNCHANGED <<files, pc, cur, saved, hist>>
       ELSE IF SNAPSHOTS_DIR \notin dirs
       THEN /\ last' = Ret("save", metadata.id, "Io", NoVal)
            /\ UNCHANGED <<files, pc, cur, saved, hist>>
       ELSE /\ files' = Put(files, get_snapshot_path(metadata.id), <<>>)
            /\ pc' = "writing"
            /\ cur' = [metadata |-> metadata, json |-> to_string_pretty(metadata),
                       prev |-> IF snapshot_exists(metadata.id)
                                THEN Some(files[get_snapshot_path(metadata.id)])
                                ELSE None]
            /\ saved' = Remove(saved, metadata.id)
            /\ hist' = [hist EXCEPT ![metadata.id] = "live"]
            /\ last' = Ret("save", metadata.id, "pending", NoVal)
    /\ UNCHANGED <<dirs, clock, genVars, hashVars>>

\* The write_all inside fs::write puts the JSON on disk one block of
\* BlockTokens tokens at a time; after the last block save_snapshot returns Ok.
write_all ==
    /\ pc = "writing"
    /\ LET path == get_snapshot_path(cur.metadata.id)
           done == Len(files[path])
           total == Len(cur.json)
           most == IF total - done < BlockTokens THEN total - done ELSE BlockTokens
       IN  \E n \in 1..most :
           /\ files' = Put(files, path, SubSeq(cur.json, 1, done + n))
           /\ IF done + n = total
              THEN /\ pc' = "idle"
                   /\ cur' = None
                   /\ saved' = Put(saved, cur.metadata.id, cur.metadata)
                   /\ last' = Ret("save", cur.metadata.id, "Ok", NoVal)
              ELSE /\ last' = Ret("save", cur.metadata.id, "pending", NoVal)
                   /\ UNCHANGED <<pc, cur, saved>>
    /\ UNCHANGED <<dirs, hist, clock, genVars, hashVars>>

\* The process is killed inside fs::write: what is on disk stays as it is.
interrupt ==
    /\ pc = "writing"
    /\ pc' = "crashed"
    /\ last' = Ret("save", cur.metadata.id, "interrupted", NoVal)
    /\ UNCHANGED <<dirs, files, cur, saved, hist, clock, genVars, hashVars>>

\* (variant: no existence check, the failed read surfaces as an I/O error)
load_snapshot_unchecked(snapshot_id) ==
    /\ IF ~snapshot_exists(snapshot_id)
       THEN last' = Ret("load", snapshot_id, "Io", NoVal)
       ELSE LET json == files[get_snapshot_path(snapshot_id)]
                parsed == from_str(json)
            IN  IF parsed.ok
                THEN last' = Ret("load", snapshot_id, "Ok", parsed.value)
                ELSE last' = Ret("load", snapshot_id, "SerializationError", NoVal)
    /\ UNCHANGED <<dirs, files, pc, cur, saved, hist, clock, genVars, hashVars>>

load_snapshot(snapshot_id) ==
    /\ IF ~snapshot_exists(snapshot_id)
       THEN last' = Ret("load", snapshot_id, "SnapshotNotFound", NoVal)
       ELSE LET json == files[get_snapshot_path(snapshot_id)]
                parsed == from_str(json)
            IN  IF parsed.ok
                THEN last' = Ret("load", snapshot_id, "Ok", parsed.value)
                ELSE last' = Ret("load", snapshot_id, "SerializationError", NoVal)
    /\ UNCHANGED <<dirs, files, pc, cur, saved, hist, clock, genVars, hashVars>>

\* (variant: deleting an absent snapshot is accepted)
delete_snapshot_lenient(snapshot_id) ==
    /\ pc = "idle"
    /\ IF ~snapshot_exists(snapshot_id)
       THEN /\ last' = Ret("delete", snapshot_id, "Ok", NoVal)
            /\ UNCHANGED <<files, saved, hist>>
       ELSE /\ files' = Remove(files, get_snapshot_path(snapshot_id))
            /\ saved' = Remove(saved, snapshot_id)
            /\ hist' = [hist EXCEPT ![snapshot_id] = "deleted"]
            /\ last' = Ret("delete", snapshot_id, "Ok", NoVal)
    /\ UNCHANGED <<dirs, pc, cur, clock, genVars, hashVars>>

delete_snapshot(snapshot_id) ==
    /\ pc = "idle"
    /\ IF ~snapshot_exists(snapshot_id)
       THEN /\ last' = Ret("delete", snapshot_id, "SnapshotNotFound", NoVal)
            /\ UNCHANGED <<files, saved, hist>>
       ELSE /\ files' = Remove(files, get_snapshot_path(snapshot_id))
            /\ saved' = Remove(saved, snapshot_id)
            /\ hist' = [hist EXCEPT ![snapshot_id] = "deleted"]
            /\ last' = Ret("delete", snapshot_id, "Ok", NoVal)
    /\ UNCHANGED <<dirs, pc, cur, clock, genVars, hashVars>>

----------------------------------------------------------------------------
(* The metadata store: one caller makes the mutating calls one at a time   *)
(* (init, save, delete); loads and lists run at any moment, also between   *)
(* the writes of a save and after a save was interrupted.                  *)

Epoch == [date |-> <<2026, 9, 30>>, sod |-> 35999, nanos |-> 0]

InitStoreIdle ==
    /\ dirs = {}
    /\ files = <<>>
    /\ pc = "idle"
    /\ cur = None
    /\ last = Ret("none", <<>>, "Ok", NoVal)
    /\ saved = <<>>
    /\ hist = [id \in Ids |-> "never"]

InitOther ==
    /\ clock = Epoch
    /\ gen = <<>>
    /\ disk = <<>>
    /\ hin = <<>>
    /\ task = <<>>
    /\ results = <<>>
    /\ ident = <<>>

Init ==
    /\ InitStoreIdle
    /\ InitOther

Save == \E metadata \in Inputs : save_snapshot(metadata)

Load == \E id \in Ids : load_snapshot(id)

Delete == \E id \in Ids : delete_snapshot(id)

Next ==
    \/ init_repository
    \/ Save
    \/ write_all
    \/ interrupt
    \/ Load
    \/ Delete
    \/ list_snapshots

Spec == Init /\ [][Next]_vars

----------------------------------------------------------------------------
(* types.rs: SnapshotId::generate.  The wall clock is [date, sod, nanos]:  *)
(* <<year, month, day>>, the second of the day and the nanosecond of the   *)
(* second.                                                                 *)

SnapshotPrefix == <<115, 110, 97, 112, 115, 104, 111, 116, 95>>

RECURSIVE Pad(_, _)
\* chrono's zero-padded decimal of at least `width` digits
Pad(n, width) ==
    IF width <= 1 /\ n < 10 THEN <<Digit0 + n>>
    ELSE Pad(n \div 10, width - 1) \o <<Digit0 + (n % 10)>>

\* now.format("%Y%m%d_%H%M%S_%f")
format(now) ==
    Pad(now.date[1], 4) \o Pad(now.date[2], 2) \o Pad(now.date[3], 2)
    \o <<Underscore>>
    \o Pad(now.sod \div 3600, 2) \o Pad((now.sod \div 60) % 60, 2) \o Pad(now.sod % 60, 2)
    \o <<Underscore>>
    \o Pad(now.nanos, 9)

Dates == {<<2026, 9, 30>>, <<2026, 10, 1>>}
SecondsOfDay == {35999, 36000}
Nanos == {0, 9, 999999999}

ClockValues == [date : Dates, sod : SecondsOfDay, nanos : Nanos]

DateBefore(d, e) ==
    \/ d[1] < e[1]
    \/ d[1] = e[1] /\ d[2] < e[2]
    \/ d[1] = e[1] /\ d[2] = e[2] /\ d[3] < e[3]

Before(t, u) ==
    \/ DateBefore(t.date, u.date)
    \/ t.date = u.date /\ t.sod < u.sod
    \/ t.date = u.date /\ t.sod = u.sod /\ t.nanos < u.nanos

MaxGenerated == 3

generate ==
    /\ Len(gen) < MaxGenerated
    /\ gen' = Append(gen, SnapshotPrefix \o format(clock))
    /\ UNCHANGED <<storeVars, clock, hashVars>>

\* Time passes: the clock reads a later value.
tick ==
    /\ \E t \in ClockValues : Before(clock, t) /\ clock' = t
    /\ UNCHANGED <<storeVars, genVars, hashVars>>

\* The system clock is set back (it is the wall clock, not a monotonic one).
adjust ==
    /\ \E t \in ClockValues : Before(t, clock) /\ clock' = t
    /\ UNCHANGED <<storeVars, genVars, hashVars>>

InitGen ==
    /\ InitStoreIdle
    /\ clock \in ClockValues
    /\ gen = <<>>
    /\ disk = <<>>
    /\ hin = <<>>
    /\ task = <<>>
    /\ results = <<>>
    /\ ident = <<>>

NextGen == generate \/ tick \/ adjust

SpecGen == InitGen /\ [][NextGen]_vars

----------------------------------------------------------------------------
(* hash/mod.rs: hash_file, one task per input path.  A file is a sequence  *)
(* of bytes; the digest is an incremental fold over the bytes absorbed,    *)
(* standing for Sha256 (new, update, finalize).                            *)

\* Bytes of the read buffer (1 MiB in the code, scaled to the model's files).
BUFFER_SIZE == 2

MaxFileLen == 3

Bytes == {0, 1}
Paths == {"p.bin", "q.bin"}

\* The path lists handed to the hasher: none, one file, two files, one file
\* twice.
InputLists == {<<>>, <<"p.bin">>, <<"p.bin", "q.bin">>, <<"q.bin", "q.bin">>}

Contents == UNION {[1..n -> Bytes] : n \in 0..MaxFileLen}

\* A path names a file with its bytes, or nothing that can be opened.
DiskEntries ==
    {[exists |-> TRUE, bytes |-> c] : c \in Contents}
    \cup {[exists |-> FALSE, bytes |-> <<>>]}

Sha256_new == 7

RECURSIVE update(_, _)
update(hasher, data) ==
    IF data = <<>> THEN hasher
    ELSE update((hasher * 31 + Head(data) + 1) % 65521, Tail(data))

finalize(hasher) == hasher

NoResult == [kind |-> "none", digest |-> 0, path |-> ""]
Ok(hash) == [kind |-> "Ok", digest |-> hash, path |-> ""]
HashError(path) == [kind |-> "HashError", digest |-> 0, path |-> path]

\* File::open(path).map_err(HashError { path, .. })?
hash_open(t) ==
    /\ task[t].pc = "open"
    /\ task' = [task EXCEPT ![t] =
                  IF disk[hin[t]].exists
                  THEN [@ EXCEPT !.pc = "read", !.hasher = Sha256_new]
                  ELSE [@ EXCEPT !.pc = "done", !.out = HashError(hin[t])]]
    /\ UNCHANGED <<storeVars, clock, genVars, disk, hin, results, ident>>

\* reader.read(&mut buffer) returns Ok(n): 0 at the end of the file, else
\* between 1 and the buffer's size (a read may be short).
ReadSizes(t) ==
    LET rest == Len(disk[hin[t]].bytes) - task[t].pos
    IN  IF rest = 0 THEN {0}
        ELSE 1..(IF rest < BUFFER_SIZE THEN rest ELSE BUFFER_SIZE)

\* (variant: the whole buffer is absorbed, not its first n bytes)
AfterReadWholeBuffer(t, n) ==
    IF n = 0
    THEN [task[t] EXCEPT !.pc = "done", !.out = Ok(finalize(task[t].hasher))]
    ELSE [task[t] EXCEPT
            !.hasher = update(@, [i \in 1..BUFFER_SIZE |->
                                    IF i <= n THEN disk[hin[t]].bytes[task[t].pos + i]
                                    ELSE 0]),
            !.pos = @ + n]

\* the body of the loop after a read of n bytes
AfterRead(t, n) ==
    IF n = 0
    THEN [task[t] EXCEPT !.pc = "done", !.out = Ok(finalize(task[t].hasher))]
    ELSE [task[t] EXCEPT
            !.hasher = update(@, SubSeq(disk[hin[t]].bytes, task[t].pos + 1,
                                        task[t].pos + n)),
            !.pos = @ + n]

\* (variant: a failed read ends the loop like the end of the file)
AfterReadErrorBreak(t) ==
    [task[t] EXCEPT !.pc = "done", !.out = Ok(finalize(task[t].hasher))]

\* reader.read(..).map_err(HashError { path, .. })?
AfterReadError(t) ==
    [task[t] EXCEPT !.pc = "done", !.out = HashError(hin[t])]

hash_read(t) ==
    /\ task[t].pc = "read"
    /\ \E n \in ReadSizes(t) :
          task' = [task EXCEPT ![t] = [AfterRead(t, n) EXCEPT !.reads = @ + 1]]
    /\ UNCHANGED <<storeVars, clock, genVars, disk, hin, results, ident>>

\* The read fails (the environment decides); `failed` records that it did,
\* as `reads` counts the reads that returned Ok.
hash_read_error(t) ==
    /\ task[t].pc = "read"
    /\ task' = [task EXCEPT ![t] = [AfterReadError(t) EXCEPT !.failed = TRUE]]
    /\ UNCHANGED <<storeVars, clock, genVars, disk, hin, results, ident>>

TaskStart ==
    [pc |-> "open", pos |-> 0, hasher |-> 0, out |-> NoResult, failed |-> FALSE,
     reads |-> 0]

\* (variant: the sources that failed are left out of the collected Vec)
map_collect_ok_only ==
    SelectSeq([t \in DOMAIN hin |-> [path |-> hin[t], result |-> task[t].out]],
              LAMBDA pair : pair.result.kind = "Ok")

\* .par_iter().map(|&path| (path.to_path_buf(), hash_file(path))).collect():
\* an indexed parallel iterator collects in the order of its input.
map_collect ==
    [t \in DOMAIN hin |-> [path |-> hin[t], result |-> task[t].out]]

\* hash_files_parallel returns once every worker's hash_file has returned.
hash_files_parallel ==
    /\ results = None
    /\ \A t \in DOMAIN hin : task[t].pc = "done"
    /\ results' = Some(map_collect)
    /\ UNCHANGED <<storeVars, clock, genVars, disk, hin, task, ident>>

InitHash ==
    /\ InitStoreIdle
    /\ clock = Epoch
    /\ gen = <<>>
    /\ disk \in [Paths -> DiskEntries]
    /\ hin \in InputLists
    /\ task = [t \in DOMAIN hin |-> TaskStart]
    /\ results = None
    /\ ident = <<>>

\* The workers run hash_file on their own paths in any interleaving.
NextHash ==
    \/ \E t \in DOMAIN hin : hash_open(t)
    \/ \E t \in DOMAIN hin : hash_read(t)
    \/ \E t \in DOMAIN hin : hash_read_error(t)
    \/ hash_files_parallel

SpecHash == InitHash /\ [][NextHash]_vars

----------------------------------------------------------------------------
(* hash/mod.rs: files_identical(path1, path2), the two paths being hin[1]  *)
(* and hin[2]; hash_file runs on the first and, if that succeeded, on the  *)
(* second.                                                                 *)

NoVerdict == [kind |-> "none", value |-> FALSE, path |-> ""]
OkBool(b) == [kind |-> "Ok", value |-> b, path |-> ""]
Err(e) == [kind |-> "HashError", value |-> FALSE, path |-> e.path]

\* (variant: a file that cannot be hashed counts as different)
files_identical_result_lenient(hash1, hash2) ==
    OkBool(/\ hash1.kind = "Ok"
           /\ hash2.kind = "Ok"
           /\ hash1.digest = hash2.digest)

\* let hash1 = hash_file(path1)?; let hash2 = hash_file(path2)?;
\* Ok(hash1 == hash2)
files_identical_result(hash1, hash2) ==
    IF hash1.kind = "HashError" THEN Err(hash1)
    ELSE IF hash2.kind = "HashError" THEN Err(hash2)
    ELSE OkBool(hash1.digest = hash2.digest)

\* hash_file(path2) is called only after hash_file(path1) returned Ok.
Turn(t) == t = 1 \/ (task[1].pc = "done" /\ task[1].out.kind = "Ok")

files_identical ==
    /\ ident = NoVerdict
    /\ task[1].pc = "done"
    /\ task[1].out.kind = "HashError" \/ task[2].pc = "done"
    /\ ident' = files_identical_result(task[1].out, task[2].out)
    /\ UNCHANGED <<storeVars, clock, genVars, disk, hin, task, results>>

InitIdentical ==
    /\ InitStoreIdle
    /\ clock = Epoch
    /\ gen = <<>>
    /\ disk \in [Paths -> DiskEntries]
    /\ hin \in [{1, 2} -> Paths]
    /\ task = [t \in DOMAIN hin |-> TaskStart]
    /\ results = None
    /\ ident = NoVerdict

NextIdentical ==
    \/ \E t \in DOMAIN hin : Turn(t) /\ hash_open(t)
    \/ \E t \in DOMAIN hin : Turn(t) /\ hash_read(t)
    \/ \E t \in DOMAIN hin : Turn(t) /\ hash_read_error(t)
    \/ files_identical

SpecIdentical == InitIdentical /\ [][NextIdentical]_vars

----------------------------------------------------------------------------
(* Properties of the metadata store (checked under Spec) *)

AllDirs == {MOVS_DIR, SNAPSHOTS_DIR, OBJECTS_DIR, CONFIG_FILE}

\* A complete record: the whole JSON of some metadata value.
CompleteRecord(json) ==
    \E m \in Inputs : Serializable(m) /\ json = to_string_pretty(m)

Record(id) == files[get_snapshot_path(id)]

\* C1: in an initialized repository, at every moment, also between the
\* writes of a save and after a save was interrupted, the record stored
\* under an id is absent or complete: never an empty or a partial record.
C1_NeverPartialRecord ==
    dirs = AllDirs
        => \A id \in Ids : snapshot_exists(id) => CompleteRecord(Record(id))

\* C2: in an initialized repository, when a save_snapshot with the id of a
\* record that was already persisted returns Ok, the persisted record is
\* the one that was there before the call.
C2_ImmutableOnceCreated ==
    [][(dirs = AllDirs /\ pc = "writing" /\ last'.op = "save" /\ last'.res = "Ok"
        /\ cur.prev # None)
          => files'[get_snapshot_path(cur.metadata.id)] = cur.prev[1]]_vars

\* C4: on an initialized repository, a list_snapshots that runs after
\* complete save and delete calls returns the ids saved and not deleted since, each once, in ascending
\* lexicographic order.
C4_ListIsLiveSet ==
    (last.op = "list" /\ pc = "idle" /\ dirs = AllDirs)
        => /\ last.res = "Ok"
           /\ {last.val[i] : i \in DOMAIN last.val} = {id \in Ids : hist[id] = "live"}
           /\ \A i, j \in DOMAIN last.val : i < j => StrLess(last.val[i], last.val[j])

C6_LoadNotFound ==
    last.op = "load" => (last.res = "SnapshotNotFound" <=> hist[last.id] # "live")

\* a load of an id that was saved and then deleted
C6_LoadAfterDelete ==
    /\ last.op = "load"
    /\ last.res = "SnapshotNotFound"
    /\ hist[last.id] = "deleted"

SameEntry(e, f) == e.path = f.path /\ e.hash = f.hash /\ e.size = f.size

SameMetadata(a, b) ==
    /\ a.id = b.id
    /\ a.message = b.message
    /\ a.author = b.author
    /\ a.parent = b.parent
    /\ Len(a.files) = Len(b.files)
    /\ \A i \in 1..Len(a.files) : SameEntry(a.files[i], b.files[i])

C8_InitCreatesAll ==
    [][last'.op = "init"
          => IF repository_exists
             THEN last'.res = "RepositoryAlreadyExists" /\ dirs' = dirs /\ files' = files
             ELSE dirs' = AllDirs /\ MOVS_DIR \in dirs']_vars

\* C8, amended: as above, but on a root without a repository the four parts
\* are all there when init returns Ok; when a filesystem call fails it
\* returns the I/O error and keeps what it created before.  Once the
\* repository directory exists it stays, so every later init fails.
C8_InitOkCreatesAll ==
    [][/\ last'.op = "init"
          => IF repository_exists
             THEN last'.res = "RepositoryAlreadyExists" /\ dirs' = dirs /\ files' = files
             ELSE /\ last'.res \in {"Ok", "Io"}
                  /\ last'.res = "Ok" => dirs' = AllDirs /\ MOVS_DIR \in dirs'
                  /\ last'.res = "Io" => dirs' # AllDirs /\ dirs \subseteq dirs'
                  /\ files' = files
       /\ repository_exists => MOVS_DIR \in dirs']_vars

\* a second init was refused while snapshot records are persisted
C8_SecondInitRefused ==
    /\ last.op = "init"
    /\ last.res = "RepositoryAlreadyExists"
    /\ dirs = AllDirs
    /\ DOMAIN saved # {}

\* The parent a persisted record names, None when there is no readable record.
ParentOf(id) ==
    IF snapshot_exists(id) /\ from_str(Record(id)).ok
    THEN from_str(Record(id)).value.parent
    ELSE None

RECURSIVE ReachesByParent(_, _, _)
\* following parent pointers from `from` arrives at `to` within `steps` steps
ReachesByParent(from, to, steps) ==
    /\ steps > 0
    /\ ParentOf(from) # None
    /\ \/ ParentOf(from)[1] = to
       \/ ReachesByParent(ParentOf(from)[1], to, steps - 1)

\* C9: in an initialized repository the parent pointers of the persisted
\* records have no cycle.
C9_NoParentCycle ==
    dirs = AllDirs => \A id \in Ids : ~ReachesByParent(id, id, Cardinality(Ids))

----------------------------------------------------------------------------
(* Properties of SnapshotId::generate (checked under SpecGen) *)

\* C3: of two ids generated one after the other, the first is different
\* from and lexicographically smaller than the second.
C3_GeneratedInOrder ==
    \A i, j \in DOMAIN gen : i < j => gen[i] # gen[j] /\ StrLess(gen[i], gen[j])

----------------------------------------------------------------------------
(* Properties of hash_file (checked under SpecHash) *)

\* C10: a hash_file whose file cannot be opened, or one of whose reads
\* failed, returns HashError with the path it was called with, and no digest.
C10_ErrorCarriesPath ==
    \A t \in DOMAIN task :
        /\ (task[t].pc = "done" /\ (~disk[hin[t]].exists \/ task[t].failed))
              => task[t].out = HashError(hin[t])
        /\ task[t].out.kind = "HashError" => task[t].out.path = hin[t]

\* a read failed after part of the file had been hashed
C10_FailedPartWay ==
    \E t \in DOMAIN task :
        /\ task[t].pc = "done"
        /\ task[t].failed
        /\ task[t].pos > 0
        /\ task[t].pos < Len(disk[hin[t]].bytes)

\* What hash_file(hin[t]) returns for the run of task t: the error naming
\* the path when the open or a read failed, else the digest of all the bytes.
ContentDigest(path) == finalize(update(Sha256_new, disk[path].bytes))

HashFileOf(t) ==
    IF ~disk[hin[t]].exists \/ task[t].failed
    THEN HashError(hin[t])
    ELSE Ok(ContentDigest(hin[t]))

\* C11: the Vec hash_files_parallel returns has one pair per input source, in
\* the input's order, each with that source's own path and the result of
\* hash_file on it, whatever the interleaving of the workers and whichever of
\* the other sources failed.
C11_OnePairPerSource ==
    results # None =>
        LET pairs == results[1]
        IN  /\ Len(pairs) = Len(hin)
            /\ \A t \in DOMAIN hin :
                  /\ pairs[t].path = hin[t]
                  /\ pairs[t].result = HashFileOf(t)

\* C11 witness: a collected Vec of two pairs, a failure next to a digest.
C11_FailureBesideDigest ==
    /\ results # None
    /\ Len(hin) = 2
    /\ \E t, u \in DOMAIN hin :
          /\ results[1][t].result.kind = "HashError"
          /\ results[1][u].result.kind = "Ok"
          /\ Len(disk[hin[u]].bytes) = MaxFileLen

\* C12: a digest hash_file returns is the digest of the file's whole byte
\* sequence, however the reads split it; so two calls on equal contents, at
\* the same path or at different paths, return equal digests.
C12_DigestOfContentOnly ==
    \A t, u \in DOMAIN task :
        /\ task[t].out.kind = "Ok" => task[t].out.digest = ContentDigest(hin[t])
        /\ (/\ task[t].out.kind = "Ok"
            /\ task[u].out.kind = "Ok"
            /\ disk[hin[t]].bytes = disk[hin[u]].bytes)
           => task[t].out.digest = task[u].out.digest

\* C12 witness: two paths with the same bytes, of the greatest length, hashed
\* by different numbers of reads (one of them with a short read).
C12_SameBytesOtherSplit ==
    \E t, u \in DOMAIN task :
        /\ hin[t] # hin[u]
        /\ disk[hin[t]].bytes = disk[hin[u]].bytes
        /\ Len(disk[hin[t]].bytes) = MaxFileLen
        /\ task[t].out.kind = "Ok"
        /\ task[u].out.kind = "Ok"
        /\ task[t].reads # task[u].reads

\* C13: files_identical returns Ok(true) exactly when both hash_file calls
\* succeeded with equal digests and Ok(false) exactly when both succeeded with
\* different digests; when the first fails it returns that error without
\* hashing the second file, and when the second fails it returns that one's.
C13_IdenticalIffEqualDigests ==
    ident.kind # "none" =>
        LET hash1 == task[1].out
            hash2 == task[2].out
            bothOk == hash1.kind = "Ok" /\ hash2.kind = "Ok"
        IN  /\ hash1 = HashFileOf(1)
            /\ hash2.kind # "none" => hash2 = HashFileOf(2)
            /\ ident = OkBool(TRUE) <=> (bothOk /\ hash1.digest = hash2.digest)
            /\ ident = OkBool(FALSE) <=> (bothOk /\ hash1.digest # hash2.digest)
            /\ hash1.kind = "HashError"
                  => ident = Err(hash1) /\ task[2].pc = "open"
            /\ (hash1.kind = "Ok" /\ hash2.kind = "HashError")
                  => ident = Err(hash2)

\* C13 witness: two empty files at different paths are reported identical.
C13_TwoEmptyFilesIdentical ==
    /\ hin[1] # hin[2]
    /\ disk[hin[1]] = [exists |-> TRUE, bytes |-> <<>>]
    /\ disk[hin[2]] = [exists |-> TRUE, bytes |-> <<>>]
    /\ ident = OkBool(TRUE)

\* C14: whenever list_snapshots has returned, it failed with
\* RepositoryNotFound exactly when repository_exists is false; so no root is
\* both refused by init_repository as already existing and unknown to
\* list_snapshots.
C14_ExistsIffListable ==
    last.op = "list" =>
        (repository_exists <=> last.res # "RepositoryNotFound")

\* The ids list_snapshots would return now, as a set: the stems of the
\* *.json files (what collect keeps, whatever the order of read_dir).
ListedIds ==
    {file_stem(f) : f \in {g \in DOMAIN files : extension(g) = Some(JsonExt)}}

ErrorResults == {"SnapshotNotFound", "Io", "SerializationError"}

====
